---- MODULE Spec2Model ----
(***************************************************************************)
(* A model of the compgraph execution engine: the row-stream operators     *)
(* Map, Reduce and Join of compgraph/operations, the joiner strategies,    *)
(* and the plan evaluator Graph.run of compgraph/graph.py.                 *)
(*                                                                         *)
(* Rows are Python dicts: mutable objects with identity.  The model keeps  *)
(* them in a heap (a sequence of rows, an address is an index) so that an  *)
(* in-place mutation of a row is seen through every reference to it.  A    *)
(* row is a function from column names (strings) to values.                *)
(***************************************************************************)
EXTENDS Integers, Sequences, FiniteSets, TLC

\* ------------------------------------------------------------------ bounds
MaxKey == 2        \* key values are 1..MaxKey
MaxLeft == 2       \* rows of the left input of a join
MaxRight == 2      \* rows of the right input of a join
MaxRows == 3       \* rows of the input of a reduce
MaxMapRows == 2    \* rows of the input of a map
MaxText == 3       \* characters of a text value
MaxSortRows == 4   \* rows of the input of a sort
MaxMemory == 2     \* the largest memory bound of a sort, in rows
MaxSrcRows == 2    \* rows of a named source of a graph
MaxRuns == 2       \* runs of one graph
MaxTopN == 3       \* the largest n of a TopN
MaxSide == 3       \* rows of one input of a join of inputs in any key order

VARIABLES
  heap,        \* the row objects: heap[a] is the dict at address a
  heap0,       \* the heap as it was when the inputs were handed over
  out,         \* the rows pulled from the operation so far (addresses)
  pc,          \* position of the running generator
  keys,        \* Join.keys / Reduce.keys / the sort's keys
  rows,        \* __call__'s rows: the (left) input, a list of addresses
  pos,         \* how many rows of rows the running operation has pulled
  calls,       \* history: the joiner / reducer / mapper invocations, in order
  joiner,      \* Join.joiner: which Joiner subclass
  rows_b,      \* Join.__call__'s args[0]: the right input (addresses)
  left_next,   \* Join.__call__'s left_next: None or a group
  right_next,  \* Join.__call__'s right_next: None or a group
  prov,        \* history: for each row of out, the pair it was made from
  reducer,     \* Reduce.reducer: which Reducer subclass
  top_n,       \* TopN.n of that reducer (0 when it is no TopN)
  column,      \* Count.column of that reducer ("" when it is no Count)
  mapper,      \* Map.mapper: which Mapper subclass
  memory,      \* the sort's memory bound, in rows
  buffer,      \* the sort's in-memory buffer
  runs,        \* the sort's spilled runs, each a sorted list
  plan,        \* the Graph that is run
  kwargs,      \* the named sources passed to Graph.run
  results      \* what each finished run of the Graph gave its caller

ioVars == <<heap, heap0, out, pc, keys, rows, pos, calls>>
joinVars == <<joiner, rows_b, left_next, right_next, prov>>
reduceVars == <<reducer, top_n, column>>
mapVars == <<mapper>>
sortVars == <<memory, buffer, runs>>
graphVars == <<plan, kwargs, results>>
vars == <<ioVars, joinVars, reduceVars, mapVars, sortVars, graphVars>>

\* ------------------------------------------------------------ rows (dicts)
Range(s) == {s[i] : i \in 1..Len(s)}

\* row.pop(col) followed by row[new] = <popped value>
Rename(row, col, new) ==
  [c \in (DOMAIN row \ {col}) \cup {new} |-> IF c = new THEN row[col] ELSE row[c]]

\* for col in cols: row[col + suffix] = row.pop(col)
\* (the columns of the model never end in a suffix before they are renamed,
\* so no renamed column lands on another column of cols and Python's set
\* iteration order does not show)
RECURSIVE RenameAll(_, _, _)
RenameAll(row, cols, suffix) ==
  IF cols = {} THEN row
  ELSE LET col == CHOOSE c \in cols : TRUE
       IN  RenameAll(Rename(row, col, col \o suffix), cols \ {col}, suffix)

\* new_row.update(row_a)
Update(new_row, row_a) ==
  [c \in DOMAIN new_row \cup DOMAIN row_a |->
     IF c \in DOMAIN row_a THEN row_a[c] ELSE new_row[c]]

\* lambda row: [row[k] for k in self.keys]
KeyOf(row, K) == [i \in 1..Len(K) |-> row[K[i]]]

\* Python's list comparison a < b: the first differing element decides,
\* otherwise the shorter list is the smaller
ListLess(a, b) ==
  \/ \E i \in 1..Len(a) :
       /\ i <= Len(b)
       /\ \A j \in 1..(i - 1) : a[j] = b[j]
       /\ a[i] < b[i]
  \/ /\ Len(a) < Len(b)
     /\ \A j \in 1..Len(a) : a[j] = b[j]

\* ---------------------------------------------------------------- joiners
suffix_a == "_1"
suffix_b == "_2"

None == <<>>

\* One pass of the inner loop body of a joiner (join.py 77-85) on the pair
\* (row_a at address a, row_b at address b): returns the heap after it, the
\* new row being the last object of the heap.
MergePair(h, a, b, K) ==
  LET new_row   == h[b]                                      \* deepcopy(row_b)
      same_cols == DOMAIN new_row \cap (DOMAIN h[a] \ Range(K))
      row_a2    == RenameAll(h[a], same_cols, suffix_a)      \* in place
      new_row2  == RenameAll(new_row, same_cols, suffix_b)
  IN  Append([h EXCEPT ![a] = row_a2], Update(new_row2, row_a2))

\* The nested loops "for row_a in rows_a: for row_b in all_rows_b" shared by
\* the four joiners, resumed until exhausted.  st is what the generator has
\* done so far: the heap, the rows yielded, and the pair each came from.
RECURSIVE CartesianLoop(_, _, _, _, _, _)
CartesianLoop(st, K, A, B, i, j) ==
  IF i > Len(A) THEN st
  ELSE IF j > Len(B) THEN CartesianLoop(st, K, A, B, i + 1, 1)
  ELSE LET h2 == MergePair(st.heap, A[i], B[j], K)
       IN  CartesianLoop([heap |-> h2,
                          out  |-> Append(st.out, Len(h2)),
                          prov |-> Append(st.prov, <<A[i], B[j]>>)],
                         K, A, B, i, j + 1)

Cartesian(h, K, A, B) ==
  CartesianLoop([heap |-> h, out |-> <<>>, prov |-> <<>>], K, A, B, 1, 1)

\* yield from rows_a: the input objects themselves are yielded
YieldFromA(h, A) ==
  [heap |-> h, out |-> A, prov |-> [i \in 1..Len(A) |-> <<A[i], 0>>]]

\* yield from all_rows_b
YieldFromB(h, B) ==
  [heap |-> h, out |-> B, prov |-> [i \in 1..Len(B) |-> <<0, B[i]>>]]

\* InnerJoiner with rows_b not materialized: the iterator is exhausted after
\* the first left row
InnerJoinerOnePass(h, K, A, B) ==
  Cartesian(h, K, IF A = <<>> THEN <<>> ELSE <<A[1]>>, B)

InnerJoiner(h, K, A, B) == Cartesian(h, K, A, B)

\* a joiner that forgets its right rows when it was given no left row
ThenIfAEmptySkip(st, A, B) == st

\* "if a_empty: yield from all_rows_b" after the loops
ThenIfAEmpty(st, A, B) ==
  IF Len(A) = 0
  THEN [heap |-> st.heap,
        out  |-> st.out \o YieldFromB(st.heap, B).out,
        prov |-> st.prov \o YieldFromB(st.heap, B).prov]
  ELSE st

OuterJoiner(h, K, A, B) ==
  IF Len(B) = 0 THEN YieldFromA(h, A)
  ELSE ThenIfAEmpty(Cartesian(h, K, A, B), A, B)

\* a left joiner without the branch for no right rows
LeftJoinerMatchedOnly(h, K, A, B) == Cartesian(h, K, A, B)

\* a right joiner that passes its left rows through when it has no right rows
RightJoinerKeepsLeft(h, K, A, B) ==
  IF Len(B) = 0 THEN YieldFromA(h, A)
  ELSE ThenIfAEmpty(Cartesian(h, K, A, B), A, B)

LeftJoiner(h, K, A, B) ==
  IF Len(B) = 0 THEN YieldFromA(h, A)
  ELSE Cartesian(h, K, A, B)

RightJoiner(h, K, A, B) == ThenIfAEmpty(Cartesian(h, K, A, B), A, B)

Joiners == {"InnerJoiner", "OuterJoiner", "LeftJoiner", "RightJoiner"}

\* self.joiner(self.keys, rows_a, rows_b), pulled until exhausted
JoinerCall(j, h, K, A, B) ==
  CASE j = "InnerJoiner" -> InnerJoiner(h, K, A, B)
    [] j = "OuterJoiner" -> OuterJoiner(h, K, A, B)
    [] j = "LeftJoiner"  -> LeftJoiner(h, K, A, B)
    [] j = "RightJoiner" -> RightJoiner(h, K, A, B)

\* ------------------------------------------------------- itertools.groupby
\* A group is <<key, lo, hi>>: the key and the positions lo..hi of its rows
\* in the list the groupby iterates.  The joiners rename only columns that
\* are not in K, so the keys groupby reads lazily are the keys read here.
GroupKey(g) == g[1]
GroupRows(list, g) == SubSeq(list, g[2], g[3])

\* a groupby that ends every group after one row
RunEndSingle(h, list, K, lo) == lo

\* the last position of the maximal run of equal keys that starts at lo
RECURSIVE RunEnd(_, _, _, _)
RunEnd(h, list, K, lo) ==
  IF lo < Len(list) /\ KeyOf(h[list[lo + 1]], K) = KeyOf(h[list[lo]], K)
  THEN RunEnd(h, list, K, lo + 1)
  ELSE lo

\* Join._get_next_group(groups), with the groupby having consumed the list
\* up to position done: the next group, or None on StopIteration
GetNextGroup(h, list, K, done) ==
  IF done >= Len(list) THEN None
  ELSE <<KeyOf(h[list[done + 1]], K), done + 1, RunEnd(h, list, K, done + 1)>>

\* ------------------------------------------------------------ Join.__call__
\* The state of the generator Join.__call__ between two joiner invocations
\* is st: the heap, the rows yielded so far (out), left_next and right_next,
\* and the histories prov and calls.

\* Join.__call__ without its two draining loops
JoinBranchNoDrain(ln, rn) ==
  IF ln # None /\ rn # None
  THEN IF GroupKey(ln) = GroupKey(rn) THEN "equal"
       ELSE IF ListLess(GroupKey(ln), GroupKey(rn)) THEN "left"
       ELSE "right"
  ELSE "end"

\* which branch of the three loops (lines 49-67) runs next
JoinBranch(ln, rn) ==
  IF ln # None /\ rn # None
  THEN IF GroupKey(ln) = GroupKey(rn) THEN "equal"                  \* line 50
       ELSE IF ListLess(GroupKey(ln), GroupKey(rn)) THEN "left"     \* line 54
       ELSE "right"                                                 \* line 57
  ELSE IF ln # None THEN "drain_left"                               \* line 61
  ELSE IF rn # None THEN "drain_right"                              \* line 65
  ELSE "end"

\* lines 43-47: the two groupby objects and the first group of each side
JoinEnter(h, K, A, B) ==
  [heap |-> h, out |-> <<>>, prov |-> <<>>, calls |-> <<>>,
   left_next  |-> GetNextGroup(h, A, K, 0),
   right_next |-> GetNextGroup(h, B, K, 0)]

\* a merge that, at equal keys, replaces the left group only
JoinIterationKeepRight(j, K, A, B, st) ==
  LET br    == JoinBranch(st.left_next, st.right_next)
      useA  == br \in {"equal", "left", "drain_left"}
      useB  == br \in {"equal", "right", "drain_right"}
      rowsA == IF useA THEN GroupRows(A, st.left_next) ELSE <<>>
      rowsB == IF useB THEN GroupRows(B, st.right_next) ELSE <<>>
      k     == IF useA THEN GroupKey(st.left_next) ELSE GroupKey(st.right_next)
      r     == JoinerCall(j, st.heap, K, rowsA, rowsB)
  IN  [heap  |-> r.heap,
       out   |-> st.out \o r.out,
       prov  |-> st.prov \o r.prov,
       calls |-> Append(st.calls, <<k, rowsA, rowsB>>),
       left_next  |-> IF useA THEN GetNextGroup(r.heap, A, K, st.left_next[3])
                      ELSE st.left_next,
       right_next |-> IF useB /\ ~useA THEN GetNextGroup(r.heap, B, K, st.right_next[3])
                      ELSE st.right_next]

\* one iteration of the loop that JoinBranch names: the joiner is invoked,
\* pulled to exhaustion, and the group(s) it was given are replaced
JoinIteration(j, K, A, B, st) ==
  LET br    == JoinBranch(st.left_next, st.right_next)
      useA  == br \in {"equal", "left", "drain_left"}
      useB  == br \in {"equal", "right", "drain_right"}
      rowsA == IF useA THEN GroupRows(A, st.left_next) ELSE <<>>
      rowsB == IF useB THEN GroupRows(B, st.right_next) ELSE <<>>
      k     == IF useA THEN GroupKey(st.left_next) ELSE GroupKey(st.right_next)
      r     == JoinerCall(j, st.heap, K, rowsA, rowsB)
  IN  [heap  |-> r.heap,
       out   |-> st.out \o r.out,
       prov  |-> st.prov \o r.prov,
       calls |-> Append(st.calls, <<k, rowsA, rowsB>>),
       left_next  |-> IF useA THEN GetNextGroup(r.heap, A, K, st.left_next[3])
                      ELSE st.left_next,
       right_next |-> IF useB THEN GetNextGroup(r.heap, B, K, st.right_next[3])
                      ELSE st.right_next]

JoinState ==
  [heap |-> heap, out |-> out, prov |-> prov, calls |-> calls,
   left_next |-> left_next, right_next |-> right_next]

JoinSet(st) ==
  /\ heap' = st.heap
  /\ out' = st.out
  /\ prov' = st.prov
  /\ calls' = st.calls
  /\ left_next' = st.left_next
  /\ right_next' = st.right_next

JoinFrame == UNCHANGED <<heap0, keys, rows, pos, joiner, rows_b, reduceVars, mapVars, sortVars, graphVars>>

JoinStart ==
  /\ pc = "start"
  /\ JoinSet(JoinEnter(heap, keys, rows, rows_b))
  /\ pc' = "merge"
  /\ JoinFrame

\* lines 50-53: both sides have a group of this key
JoinEqual ==
  /\ pc = "merge"
  /\ JoinBranch(left_next, right_next) = "equal"
  /\ JoinSet(JoinIteration(joiner, keys, rows, rows_b, JoinState))
  /\ pc' = pc
  /\ JoinFrame

\* lines 54-56: the left key is the smaller
JoinLeftLess ==
  /\ pc = "merge"
  /\ JoinBranch(left_next, right_next) = "left"
  /\ JoinSet(JoinIteration(joiner, keys, rows, rows_b, JoinState))
  /\ pc' = pc
  /\ JoinFrame

\* lines 57-59: the else branch
JoinRightLess ==
  /\ pc = "merge"
  /\ JoinBranch(left_next, right_next) = "right"
  /\ JoinSet(JoinIteration(joiner, keys, rows, rows_b, JoinState))
  /\ pc' = pc
  /\ JoinFrame

\* lines 61-63: the right side is exhausted
JoinDrainLeft ==
  /\ pc = "merge"
  /\ JoinBranch(left_next, right_next) = "drain_left"
  /\ JoinSet(JoinIteration(joiner, keys, rows, rows_b, JoinState))
  /\ pc' = pc
  /\ JoinFrame

\* lines 65-67: the left side is exhausted
JoinDrainRight ==
  /\ pc = "merge"
  /\ JoinBranch(left_next, right_next) = "drain_right"
  /\ JoinSet(JoinIteration(joiner, keys, rows, rows_b, JoinState))
  /\ pc' = pc
  /\ JoinFrame

\* the generator returns: StopIteration reaches the consumer
JoinEnd ==
  /\ pc = "merge"
  /\ JoinBranch(left_next, right_next) = "end"
  /\ pc' = "done"
  /\ UNCHANGED <<heap, out, prov, calls, left_next, right_next>>
  /\ JoinFrame

\* Join.__call__ pulled to exhaustion
RECURSIVE JoinLoop(_, _, _, _, _)
JoinLoop(j, K, A, B, st) ==
  IF JoinBranch(st.left_next, st.right_next) = "end" THEN st
  ELSE JoinLoop(j, K, A, B, JoinIteration(j, K, A, B, st))

JoinAll(j, K, h, A, B) == JoinLoop(j, K, A, B, JoinEnter(h, K, A, B))

\* ---------------------------------------------------------------- reducers
count_column == "count"     \* Count(column) as the callers of the library write it
sum_column == "v"           \* Sum(column)

Last(s) == s[Len(s)]

\* a reducer that copies every column of the last row, not the key columns only
WithKeysAll(new_row, K, row) ==
  [c \in DOMAIN new_row \cup DOMAIN row |->
     IF c \in DOMAIN new_row THEN new_row[c] ELSE row[c]]

\* for key in group_key: new_row[key] = row[key], row the last row pulled
WithKeys(new_row, K, row) ==
  [c \in DOMAIN new_row \cup Range(K) |-> IF c \in Range(K) THEN row[c] ELSE new_row[c]]

RECURSIVE SumOf(_, _, _)
SumOf(h, G, col) ==
  IF G = <<>> THEN 0 ELSE h[G[1]][col] + SumOf(h, Tail(G), col)

\* What a reducer returns has, next to the heap and the rows it yielded, the
\* number of rows of the group it pulled (used).

\* FirstReducer: the first row of the group itself is yielded, and the
\* generator stops pulling
FirstReducer(h, K, G) ==
  [heap |-> h, out |-> IF G = <<>> THEN <<>> ELSE <<G[1]>>,
   used |-> IF G = <<>> THEN 0 ELSE 1]

\* Count: one new row, the count and the key columns of the last row
Count(h, K, G) ==
  LET new_row == WithKeys([c \in {column} |-> Len(G)], K, h[Last(G)])
  IN  [heap |-> Append(h, new_row), out |-> <<Len(h) + 1>>, used |-> Len(G)]

\* Sum: one new row, the sum and the key columns of the last row
Sum(h, K, G) ==
  LET new_row == WithKeys([c \in {sum_column} |-> SumOf(h, G, sum_column)], K, h[Last(G)])
  IN  [heap |-> Append(h, new_row), out |-> <<Len(h) + 1>>, used |-> Len(G)]

\* ties of heapq.nlargest broken for the row seen last
LargestLatest(h, G, col, left) ==
  CHOOSE i \in left : \A j \in left \ {i} :
    \/ h[G[i]][col] > h[G[j]][col]
    \/ h[G[i]][col] = h[G[j]][col] /\ i > j

\* heapq.nlargest decorates the i-th row as (key, -i, row) and orders by
\* that: the position of the largest of the rows at the positions left, the
\* earliest of them when several have the largest key
Largest(h, G, col, left) ==
  CHOOSE i \in left : \A j \in left \ {i} :
    \/ h[G[i]][col] > h[G[j]][col]
    \/ h[G[i]][col] = h[G[j]][col] /\ i < j

\* heapq.nlargest(n, rows, key): the n largest of the rows at the positions
\* left, largest first; nothing for n <= 0
RECURSIVE NLargest(_, _, _, _, _)
NLargest(n, h, G, col, left) ==
  IF n <= 0 \/ left = {} THEN <<>>
  ELSE LET i == Largest(h, G, col, left)
       IN  <<G[i]>> \o NLargest(n - 1, h, G, col, left \ {i})

column_max == "s"           \* TopN(column, n)

\* TopN: the rows heapq.nlargest returns are yielded, the row objects of the
\* group themselves
TopN(h, K, G) ==
  [heap |-> h, out |-> NLargest(top_n, h, G, column_max, 1..Len(G)),
   used |-> IF top_n <= 0 THEN 0 ELSE Len(G)]

Reducers == {"FirstReducer", "Count", "Sum"}

\* self.reducer(tuple(self.keys), group), pulled until exhausted
ReducerCall(r, h, K, G) ==
  CASE r = "FirstReducer" -> FirstReducer(h, K, G)
    [] r = "Count"        -> Count(h, K, G)
    [] r = "Sum"          -> Sum(h, K, G)
    [] r = "TopN"         -> TopN(h, K, G)

\* ---------------------------------------------------------- Reduce.__call__
\* a groupby that starts its next group at the first row not pulled yet
SkipNothing(h, list, K, pulled) == pulled

\* groupby.__next__ after a group of which the rows up to position pulled
\* were pulled: it pulls rows until one has another key (or none is left), so
\* what the reducer left of the group is skipped.  The position of the last
\* row of the group.
SkipRest(h, list, K, pulled) == RunEnd(h, list, K, pulled)

\* One iteration of "for _, group in groupby(rows, ...)": the reducer is
\* invoked on the next group and pulled to exhaustion; groupby has pulled
\* the first row of the group itself and the reducer res.used rows of it;
\* st.pos is the position the next group starts after.
ReduceIteration(r, K, list, st) ==
  LET g      == GetNextGroup(st.heap, list, K, st.pos)
      res    == ReducerCall(r, st.heap, K, GroupRows(list, g))
      pulled == IF res.used > 1 THEN g[2] + res.used - 1 ELSE g[2]
  IN  [heap  |-> res.heap,
       out   |-> st.out \o res.out,
       calls |-> Append(st.calls, <<GroupKey(g), GroupRows(list, g)>>),
       pos   |-> SkipRest(res.heap, list, K, pulled)]

ReduceEnter(h) == [heap |-> h, out |-> <<>>, calls |-> <<>>, pos |-> 0]

ReduceFrame ==
  UNCHANGED <<heap0, keys, rows, reduceVars, joinVars, mapVars, sortVars, graphVars>>

\* line 31-32: groupby has another group
ReduceGroup ==
  /\ pc = "groups"
  /\ pos < Len(rows)
  /\ LET st == ReduceIteration(reducer, keys, rows,
                               [heap |-> heap, out |-> out, calls |-> calls, pos |-> pos])
     IN  /\ heap' = st.heap
         /\ out' = st.out
         /\ calls' = st.calls
         /\ pos' = st.pos
  /\ pc' = pc
  /\ ReduceFrame

\* groupby raises StopIteration: the for loop and the generator end
ReduceEnd ==
  /\ pc = "groups"
  /\ pos >= Len(rows)
  /\ pc' = "done"
  /\ UNCHANGED <<heap, out, calls, pos>>
  /\ ReduceFrame

\* Reduce.__call__ pulled to exhaustion
RECURSIVE ReduceLoop(_, _, _, _)
ReduceLoop(r, K, list, st) ==
  IF st.pos >= Len(list) THEN st
  ELSE ReduceLoop(r, K, list, ReduceIteration(r, K, list, st))

ReduceAll(r, K, h, list) == ReduceLoop(r, K, list, ReduceEnter(h))

\* ----------------------------------------------------------------- mappers
\* A text value is a sequence of characters; " " is the whitespace that
\* Split's default separator \s+ matches.
split_column == "text"      \* Split(column)
Whitespace == {" "}

\* the first position from i on whose character is whitespace (ws) or
\* is not (~ws), or Len(s) + 1
RECURSIVE FirstWhere(_, _, _)
FirstWhere(s, i, ws) ==
  IF i > Len(s) \/ ((s[i] \in Whitespace) = ws) THEN i
  ELSE FirstWhere(s, i + 1, ws)

\* re.search(self.separator, s) is not None
HasSeparator(s) == FirstWhere(s, 1, TRUE) <= Len(s)

\* val, s = re.split(self.separator, s, 1): the text before the first run of
\* whitespace and the text after that run
SplitOnce(s) ==
  LET from == FirstWhere(s, 1, TRUE)
      to   == FirstWhere(s, from, FALSE)
  IN  <<SubSeq(s, 1, from - 1), SubSeq(s, to, Len(s))>>

\* the while loop of Split.__call__ (lines 86-89) on the row at address a,
\* s the text still to split: a deep copy of the row is yielded per token
RECURSIVE SplitLoop(_, _, _)
SplitLoop(st, a, s) ==
  IF HasSeparator(s)
  THEN LET row2 == [c \in DOMAIN st.heap[a] \cup {split_column} |->
                      IF c = split_column THEN SplitOnce(s)[1] ELSE st.heap[a][c]]
           h2   == Append([st.heap EXCEPT ![a] = row2], row2)
       IN  SplitLoop([heap |-> h2, out |-> Append(st.out, Len(h2)), rest |-> s],
                     a, SplitOnce(s)[2])
  ELSE [heap |-> st.heap, out |-> st.out, rest |-> s]

\* Split.__call__: the column is popped, split, and the row itself is yielded
\* last with what is left of the text
Split(h, a) ==
  LET s       == h[a][split_column]
      popped  == [c \in DOMAIN h[a] \ {split_column} |-> h[a][c]]
      st      == SplitLoop([heap |-> [h EXCEPT ![a] = popped], out |-> <<>>, rest |-> s], a, s)
      lastrow == [c \in DOMAIN st.heap[a] \cup {split_column} |->
                    IF c = split_column THEN st.rest ELSE st.heap[a][c]]
  IN  [heap |-> [st.heap EXCEPT ![a] = lastrow], out |-> Append(st.out, a)]

\* DummyMapper: yield row
DummyMapper(h, a) == [heap |-> h, out |-> <<a>>]

\* the condition the caller gave Filter: the text is not empty
condition(row) == row[split_column] # <<>>

\* Filter: if self.condition(row): yield row
Filter(h, a) == [heap |-> h, out |-> IF condition(h[a]) THEN <<a>> ELSE <<>>]

lower_column == "text"      \* LowerCase(column)

\* str.lower() of one character
LowerChar(c) == IF c = "A" THEN "a" ELSE c

\* LowerCase._lower_case(txt): txt.lower()
LowerText(txt) == [i \in 1..Len(txt) |-> LowerChar(txt[i])]

\* LowerCase: the column of the row it was given is assigned, and that row
\* is yielded
LowerCase(h, a) ==
  [heap |-> [h EXCEPT ![a] = [@ EXCEPT ![lower_column] = LowerText(@)]],
   out  |-> <<a>>]

product_columns == <<"id", "v">>     \* Product(columns)
result_column == "product"           \* Product's result_column

\* row[self.result_column] = 1, then *= row[col] for each col of cols
RECURSIVE ProductOf(_, _)
ProductOf(row, cols) ==
  IF cols = <<>> THEN 1
  ELSE ProductOf(row, SubSeq(cols, 1, Len(cols) - 1)) * row[Last(cols)]

\* Product: the result column is set in the row it was given, and that row
\* is yielded
Product(h, a) ==
  LET row == [c \in DOMAIN h[a] \cup {result_column} |->
                IF c = result_column THEN ProductOf(h[a], product_columns) ELSE h[a][c]]
  IN  [heap |-> [h EXCEPT ![a] = row], out |-> <<a>>]

Mappers == {"DummyMapper", "Split", "Filter"}

\* self.mapper(row), pulled until exhausted
MapperCall(m, h, a) ==
  CASE m = "DummyMapper" -> DummyMapper(h, a)
    [] m = "Split"       -> Split(h, a)
    [] m = "Filter"      -> Filter(h, a)
    [] m = "LowerCase"   -> LowerCase(h, a)
    [] m = "Product"     -> Product(h, a)

\* ------------------------------------------------------------- Map.__call__
\* Map.__call__ with "yield next(...)" for "yield from": one row at most of
\* what the mapper yields
MapIterationFirstOnly(m, list, st) ==
  LET h2  == Append(st.heap, st.heap[list[st.pos + 1]])
      res == MapperCall(m, h2, Len(h2))
      one == IF res.out = <<>> THEN <<>> ELSE <<res.out[1]>>
  IN  [heap  |-> res.heap,
       out   |-> st.out \o one,
       calls |-> Append(st.calls, <<list[st.pos + 1], one>>),
       pos   |-> st.pos + 1]

\* Map.__call__ with "self.mapper(row)": the mapper is given the input row
MapIterationNoCopy(m, list, st) ==
  LET res == MapperCall(m, st.heap, list[st.pos + 1])
  IN  [heap  |-> res.heap,
       out   |-> st.out \o res.out,
       calls |-> Append(st.calls, <<list[st.pos + 1], res.out>>),
       pos   |-> st.pos + 1]

\* One iteration of "for row in rows: yield from self.mapper(deepcopy(row))":
\* the copy is a new object, and the mapper is given the copy.
MapIteration(m, list, st) ==
  LET h2  == Append(st.heap, st.heap[list[st.pos + 1]])       \* deepcopy(row)
      res == MapperCall(m, h2, Len(h2))
  IN  [heap  |-> res.heap,
       out   |-> st.out \o res.out,
       calls |-> Append(st.calls, <<list[st.pos + 1], res.out>>),
       pos   |-> st.pos + 1]

MapEnter(h) == [heap |-> h, out |-> <<>>, calls |-> <<>>, pos |-> 0]

MapFrame ==
  UNCHANGED <<heap0, keys, rows, mapper, joinVars, reduceVars, sortVars, graphVars>>

\* lines 34-35: the input has another row
MapRow ==
  /\ pc = "rows"
  /\ pos < Len(rows)
  /\ LET st == MapIteration(mapper, rows,
                            [heap |-> heap, out |-> out, calls |-> calls, pos |-> pos])
     IN  /\ heap' = st.heap
         /\ out' = st.out
         /\ calls' = st.calls
         /\ pos' = st.pos
  /\ pc' = pc
  /\ MapFrame

\* the input raises StopIteration: the for loop and the generator end
MapEnd ==
  /\ pc = "rows"
  /\ pos >= Len(rows)
  /\ pc' = "done"
  /\ UNCHANGED <<heap, out, calls, pos>>
  /\ MapFrame

\* Map.__call__ pulled to exhaustion
RECURSIVE MapLoop(_, _, _)
MapLoop(m, list, st) ==
  IF st.pos >= Len(list) THEN st
  ELSE MapLoop(m, list, MapIteration(m, list, st))

MapAll(m, h, list) == MapLoop(m, list, MapEnter(h))

\* ------------------------------------------------------------ external sort
\* The sort (compgraph/external_sort.py) as the design describes it: rows
\* are pulled into a buffer, a buffer that exceeds the memory bound is sorted
\* stably and spilled as a run, the last buffer is the last run, and the runs
\* are merged by smallest (key, run id).

\* s with the row a inserted after the rows whose key is not larger
RECURSIVE Insert(_, _, _, _)
Insert(h, K, s, a) ==
  IF s = <<>> THEN <<a>>
  ELSE IF ListLess(KeyOf(h[a], K), KeyOf(h[s[1]], K)) THEN <<a>> \o s
  ELSE <<s[1]>> \o Insert(h, K, Tail(s), a)

\* a stable sort of the buffer by key
RECURSIVE StableSort(_, _, _)
StableSort(h, K, s) ==
  IF s = <<>> THEN <<>>
  ELSE Insert(h, K, StableSort(h, K, SubSeq(s, 1, Len(s) - 1)), Last(s))

\* a merge that breaks ties by the latest run
MinRunLatest(h, K, rs) ==
  CHOOSE r \in 1..Len(rs) :
    /\ rs[r] # <<>>
    /\ \A q \in 1..Len(rs) : rs[q] # <<>> =>
         /\ ~ListLess(KeyOf(h[rs[q][1]], K), KeyOf(h[rs[r][1]], K))
         /\ q > r => ListLess(KeyOf(h[rs[r][1]], K), KeyOf(h[rs[q][1]], K))

\* the top of the min-heap of (key, run id): the run whose next row has the
\* smallest key, the earliest run among equal keys
MinRun(h, K, rs) ==
  CHOOSE r \in 1..Len(rs) :
    /\ rs[r] # <<>>
    /\ \A q \in 1..Len(rs) : rs[q] # <<>> =>
         /\ ~ListLess(KeyOf(h[rs[q][1]], K), KeyOf(h[rs[r][1]], K))
         /\ q < r => ListLess(KeyOf(h[rs[r][1]], K), KeyOf(h[rs[q][1]], K))

SortFrame ==
  UNCHANGED <<heap, heap0, keys, rows, calls, memory, joinVars, reduceVars, mapVars, graphVars>>

\* step 1: a row is pulled into the buffer; a buffer over the bound is sorted
\* and spilled
SortPull ==
  /\ pc = "fill"
  /\ pos < Len(rows)
  /\ LET b2 == Append(buffer, rows[pos + 1])
     IN  IF Len(b2) > memory
         THEN runs' = Append(runs, StableSort(heap, keys, b2)) /\ buffer' = <<>>
         ELSE runs' = runs /\ buffer' = b2
  /\ pos' = pos + 1
  /\ UNCHANGED <<out, pc>>
  /\ SortFrame

\* step 2: the input is exhausted; the final buffer is the last run
SortFlush ==
  /\ pc = "fill"
  /\ pos >= Len(rows)
  /\ runs' = Append(runs, StableSort(heap, keys, buffer))
  /\ buffer' = <<>>
  /\ pc' = "merge"
  /\ UNCHANGED <<out, pos>>
  /\ SortFrame

\* step 3: the merge yields the next row
SortMerge ==
  /\ pc = "merge"
  /\ \E r \in 1..Len(runs) : runs[r] # <<>>
  /\ LET r == MinRun(heap, keys, runs)
     IN  /\ out' = Append(out, runs[r][1])
         /\ runs' = [runs EXCEPT ![r] = Tail(@)]
  /\ UNCHANGED <<pc, pos, buffer>>
  /\ SortFrame

\* step 4: the runs are exhausted, the stream ends and the runs are released
SortEnd ==
  /\ pc = "merge"
  /\ \A r \in 1..Len(runs) : runs[r] = <<>>
  /\ runs' = <<>>
  /\ pc' = "done"
  /\ UNCHANGED <<out, pos, buffer>>
  /\ SortFrame

\* -------------------------------------------------------------------- Graph
\* A Graph is a tuple: its operation and then the graphs it was built from.
\*   <<"Graph">>                    Graph(): no operation was set
\*   <<"from_iter", name>>          Graph.graph_from_iter(name)
\*   <<"map", mapper, g>>           g.map(mapper)
\*   <<"reduce", reducer, K, g>>    g.reduce(reducer, K)
\*   <<"join", joiner, K, g, g2>>   g.join(joiner, g2, K)
\* A stream pulled to exhaustion is [heap, out, err]: the heap after it, the
\* rows it yielded, and the exception that ended it ("" for StopIteration).
\* Run adds streams, a history: the streams that were instantiated for it
\* and upstream of it, <<"read", name, rows>> for the stream of a source and
\* <<"join", left rows, right rows>> for the two streams a join was given.
Raise(h, e) == [heap |-> h, out |-> <<>>, err |-> e]

Yield(st) == [heap |-> st.heap, out |-> st.out, err |-> ""]

\* Graph.run with "return" for "raise": a node with no operation is an empty
\* stream
NoOperationReturns(h) == [heap |-> h, out |-> <<>>, err |-> ""]

\* lines 78-79: raise EmptyOperation('No operation passed!')
NoOperation(h) == Raise(h, "EmptyOperation")

\* a source that takes a name that is not bound for an empty stream
ReadIterFactoryDefault(name, h, kw) ==
  [heap |-> h, out |-> IF name \in DOMAIN kw THEN kw[name] ELSE <<>>, err |-> ""]

\* ops.ReadIterFactory(name)(**kwargs): the rows of the producer
\* kwargs[name], which yields the rows of the list its caller holds; a name
\* that is not bound fails with EmptyOperation
ReadIterFactory(name, h, kw) ==
  IF name \in DOMAIN kw THEN [heap |-> h, out |-> kw[name], err |-> ""]
  ELSE Raise(h, "EmptyOperation")

\* Graph.run(**kwargs) pulled to exhaustion.  Every generator of the plan
\* raises, if it does, at its first pull, before it has yielded a row, and
\* every operation pulls each of its inputs before it yields its first row
\* (Map and Reduce in their for statement, Join at lines 46-47, the left
\* input first): an exception of an upstream ends the run with no row.  The
\* rows an operation pulls lazily are the rows its upstream yields when
\* pulled to exhaustion first: the sources are ascending in the join keys,
\* a joiner renames columns of its left rows only after the right rows of
\* that key and of smaller keys were pulled, and never a key column.
RECURSIVE Run(_, _, _)

\* the stream r with the history s
Opened(r, s) == [heap |-> r.heap, out |-> r.out, err |-> r.err, streams |-> s]

\* a join that runs a graph that is both of its parents once, and hands the
\* one stream to both sides: the left side has exhausted it
RunSecondShared(g, left, kw) ==
  IF g[5] = g[4] THEN Opened([heap |-> left.heap, out |-> <<>>, err |-> ""], <<>>)
  ELSE Run(g[5], left.heap, kw)

\* line 87: self._graphs[1].run(**kwargs), a generator of its own; the join
\* pulls it after the first group of the left one
RunSecond(g, left, kw) == Run(g[5], left.heap, kw)

Run(g, h, kw) ==
  IF g[1] = "Graph" THEN Opened(NoOperation(h), <<>>)
  ELSE IF g[1] = "from_iter" THEN                                   \* line 82
    LET r == ReadIterFactory(g[2], h, kw)
    IN  Opened(r, IF r.err = "" THEN <<<<"read", g[2], r.out>>>> ELSE <<>>)
  ELSE IF g[1] = "map" THEN                                         \* line 84
    LET up == Run(g[3], h, kw)
    IN  IF up.err # "" THEN Opened(Raise(up.heap, up.err), up.streams)
        ELSE Opened(Yield(MapAll(g[2], up.heap, up.out)), up.streams)
  ELSE IF g[1] = "reduce" THEN                                      \* line 84
    LET up == Run(g[4], h, kw)
    IN  IF up.err # "" THEN Opened(Raise(up.heap, up.err), up.streams)
        ELSE Opened(Yield(ReduceAll(g[2], g[3], up.heap, up.out)), up.streams)
  ELSE                                                              \* lines 86-87
    LET left  == Run(g[4], h, kw)
        right == RunSecond(g, left, kw)
    IN  IF left.err # "" THEN Opened(Raise(left.heap, left.err), left.streams)
        ELSE IF right.err # ""
        THEN Opened(Raise(right.heap, right.err), left.streams \o right.streams)
        ELSE Opened(Yield(JoinAll(g[2], g[3], right.heap, left.out, right.out)),
                    left.streams \o right.streams
                      \o <<<<"join", left.out, right.out>>>>)

GraphFrame ==
  UNCHANGED <<heap0, out, keys, rows, pos, calls, plan, kwargs,
              joinVars, reduceVars, mapVars, sortVars>>

\* the caller runs the graph and pulls the stream to exhaustion:
\* list(graph.run(**kwargs)), or the exception it raises
GraphRun ==
  /\ pc = "ready"
  /\ Len(results) < MaxRuns
  /\ LET r == Run(plan, heap, kwargs)
     IN  /\ heap' = r.heap
         /\ results' = Append(results,
                              [out  |-> r.out,
                               rows |-> [n \in 1..Len(r.out) |-> r.heap[r.out[n]]],
                               err  |-> r.err,
                               streams |-> r.streams])
  /\ pc' = IF Len(results) + 1 < MaxRuns THEN "ready" ELSE "done"
  /\ GraphFrame

\* ----------------------------------------------- variables not in use
JoinIdle ==
  joiner = "" /\ rows_b = <<>> /\ left_next = None /\ right_next = None /\ prov = <<>>

SortIdle == memory = 0 /\ buffer = <<>> /\ runs = <<>>

GraphIdle == plan = <<>> /\ kwargs = <<>> /\ results = <<>>

\* ------------------------------------------------------------- join inputs
\* An input row has the column id and may have the column v; v's value is
\* unique to the row, so that a value in an output row shows where it came
\* from.
Shapes == [id : 1..MaxKey, v : BOOLEAN]

SrcRow(shape, a) ==
  IF shape.v THEN [id |-> shape.id, v |-> 10 * a] ELSE [id |-> shape.id]

\* lists of at most n shapes, ascending in id
SortedShapes(n) ==
  UNION {{s \in [1..m -> Shapes] : \A i \in 1..(m - 1) : s[i].id <= s[i + 1].id}
         : m \in 0..n}

KeyTuples == {<<>>, <<"id">>}

JoinInit ==
  /\ pc = "start"
  /\ keys \in KeyTuples
  /\ joiner \in Joiners
  /\ \E l \in SortedShapes(MaxLeft), r \in SortedShapes(MaxRight) :
       /\ heap = [a \in 1..(Len(l) + Len(r)) |->
                    IF a <= Len(l) THEN SrcRow(l[a], a) ELSE SrcRow(r[a - Len(l)], a)]
       /\ rows = [i \in 1..Len(l) |-> i]
       /\ rows_b = [i \in 1..Len(r) |-> Len(l) + i]
  /\ heap0 = heap
  /\ out = <<>>
  /\ pos = 0
  /\ left_next = None
  /\ right_next = None
  /\ calls = <<>>
  /\ prov = <<>>
  /\ reducer = ""
  /\ top_n = 0
  /\ column = ""
  /\ mapper = ""
  /\ SortIdle /\ GraphIdle

JoinNext ==
  \/ JoinStart
  \/ JoinEqual
  \/ JoinLeftLess
  \/ JoinRightLess
  \/ JoinDrainLeft
  \/ JoinDrainRight
  \/ JoinEnd

SpecJoin == JoinInit /\ [][JoinNext]_vars

\* --------------------------------------- join inputs in any order of keys
\* lists of at most n ids in which the rows of one id are contiguous, the ids
\* in any order
GroupedIds(n) ==
  UNION {{s \in [1..m -> 1..MaxKey] :
            \A i, j \in 1..m : (i < j /\ s[i] = s[j]) => \A k \in i..j : s[k] = s[i]}
         : m \in 0..n}

\* A left row has the columns id and test_id, a right row the columns id and
\* price, and the rows of both sides have the column v too when collide.
AnyOrderInit ==
  /\ pc = "start"
  /\ keys \in KeyTuples
  /\ joiner = "InnerJoiner"
  /\ \E l \in GroupedIds(MaxSide), r \in GroupedIds(MaxSide), collide \in BOOLEAN :
       /\ heap = [a \in 1..(Len(l) + Len(r)) |->
                    LET row == IF a <= Len(l) THEN [id |-> l[a], test_id |-> 10 * a]
                               ELSE [id |-> r[a - Len(l)], price |-> 10 * a]
                    IN  IF collide THEN Update(row, [v |-> 10 * a + 1]) ELSE row]
       /\ rows = [i \in 1..Len(l) |-> i]
       /\ rows_b = [i \in 1..Len(r) |-> Len(l) + i]
  /\ heap0 = heap
  /\ out = <<>>
  /\ pos = 0
  /\ left_next = None
  /\ right_next = None
  /\ calls = <<>>
  /\ prov = <<>>
  /\ reducer = ""
  /\ top_n = 0
  /\ column = ""
  /\ mapper = ""
  /\ SortIdle /\ GraphIdle

SpecJoinAnyOrder == AnyOrderInit /\ [][JoinNext]_vars

\* ------------------------------------------------------------ reduce inputs
\* Every input row of a reduce has the columns id and v, in any order of id.
ReduceInit ==
  /\ pc = "groups"
  /\ keys \in KeyTuples
  /\ reducer \in Reducers
  /\ top_n = 0
  /\ column = count_column
  /\ \E n \in 0..MaxRows : \E ids \in [1..n -> 1..MaxKey] :
       /\ heap = [a \in 1..n |-> [id |-> ids[a], v |-> 10 * a]]
       /\ rows = [i \in 1..n |-> i]
  /\ heap0 = heap
  /\ out = <<>>
  /\ pos = 0
  /\ calls = <<>>
  /\ mapper = ""
  /\ JoinIdle /\ SortIdle /\ GraphIdle

ReduceNext ==
  \/ ReduceGroup
  \/ ReduceEnd

SpecReduce == ReduceInit /\ [][ReduceNext]_vars

\* ------------------------------------------------------------- TopN inputs
Scores == {1, 2}

\* Every input row of a reduce with TopN has the columns id and s, in any
\* order of id and with any scores; n is any of 0..MaxTopN.
TopNInit ==
  /\ pc = "groups"
  /\ keys \in KeyTuples
  /\ reducer = "TopN"
  /\ top_n \in 0..MaxTopN
  /\ column = ""
  /\ \E m \in 0..MaxRows : \E ids \in [1..m -> 1..MaxKey], ss \in [1..m -> Scores] :
       /\ heap = [a \in 1..m |-> [id |-> ids[a], s |-> ss[a]]]
       /\ rows = [i \in 1..m |-> i]
  /\ heap0 = heap
  /\ out = <<>>
  /\ pos = 0
  /\ calls = <<>>
  /\ mapper = ""
  /\ JoinIdle /\ SortIdle /\ GraphIdle

SpecTopN == TopNInit /\ [][ReduceNext]_vars

\* ------------------------------------------------------------ Count inputs
\* the names a caller may give the result column: a name of its own, the
\* name of the key column, the name of another column of the input
CountColumns == {count_column, "id", "v"}

CountInit ==
  /\ pc = "groups"
  /\ keys \in KeyTuples
  /\ reducer = "Count"
  /\ top_n = 0
  /\ column \in CountColumns
  /\ \E m \in 0..MaxRows : \E ids \in [1..m -> 1..MaxKey] :
       /\ heap = [a \in 1..m |-> [id |-> ids[a], v |-> 10 * a]]
       /\ rows = [i \in 1..m |-> i]
  /\ heap0 = heap
  /\ out = <<>>
  /\ pos = 0
  /\ calls = <<>>
  /\ mapper = ""
  /\ JoinIdle /\ SortIdle /\ GraphIdle

SpecCount == CountInit /\ [][ReduceNext]_vars

\* --------------------------------------------------------------- map inputs
Chars == {"a", " "}

Texts == UNION {[1..n -> Chars] : n \in 0..MaxText}

\* Every input row of a map has the columns id and text.
MapInit ==
  /\ pc = "rows"
  /\ mapper \in Mappers
  /\ \E n \in 0..MaxMapRows : \E ts \in [1..n -> Texts] :
       /\ heap = [a \in 1..n |-> [id |-> a, text |-> ts[a]]]
       /\ rows = [i \in 1..n |-> i]
  /\ heap0 = heap
  /\ keys = <<>>
  /\ out = <<>>
  /\ pos = 0
  /\ calls = <<>>
  /\ reducer = ""
  /\ top_n = 0
  /\ column = ""
  /\ JoinIdle /\ SortIdle /\ GraphIdle

MapNext ==
  \/ MapRow
  \/ MapEnd

SpecMap == MapInit /\ [][MapNext]_vars

\* ----------------------------------------------- inputs of mutating mappers
\* the mappers that assign, add or remove a column of the row they are given
MutatingMappers == {"Split", "LowerCase", "Product"}

UpperChars == {"A", " "}

UpperTexts == UNION {[1..n -> UpperChars] : n \in 0..MaxText}

\* Every input row has the columns id, text and v.
MapCopyInit ==
  /\ pc = "rows"
  /\ mapper \in MutatingMappers
  /\ \E n \in 0..MaxMapRows : \E ts \in [1..n -> UpperTexts] :
       /\ heap = [a \in 1..n |-> [id |-> a, text |-> ts[a], v |-> 10 * a]]
       /\ rows = [i \in 1..n |-> i]
  /\ heap0 = heap
  /\ keys = <<>>
  /\ out = <<>>
  /\ pos = 0
  /\ calls = <<>>
  /\ reducer = ""
  /\ top_n = 0
  /\ column = ""
  /\ JoinIdle /\ SortIdle /\ GraphIdle

SpecMapCopy == MapCopyInit /\ [][MapNext]_vars

\* -------------------------------------------------------------- sort inputs
\* Every input row of a sort has the columns id and v, in any order of id.
SortInit ==
  /\ pc = "fill"
  /\ keys \in KeyTuples
  /\ memory \in 1..MaxMemory
  /\ \E n \in 0..MaxSortRows : \E ids \in [1..n -> 1..MaxKey] :
       /\ heap = [a \in 1..n |-> [id |-> ids[a], v |-> 10 * a]]
       /\ rows = [i \in 1..n |-> i]
  /\ heap0 = heap
  /\ out = <<>>
  /\ pos = 0
  /\ calls = <<>>
  /\ buffer = <<>>
  /\ runs = <<>>
  /\ reducer = ""
  /\ top_n = 0
  /\ column = ""
  /\ mapper = ""
  /\ JoinIdle /\ GraphIdle

SortNext ==
  \/ SortPull
  \/ SortFlush
  \/ SortMerge
  \/ SortEnd

SpecSort == SortInit /\ [][SortNext]_vars

\* ------------------------------------------------------------- graph inputs
\* The graphs: the sources a and b and the graph with no operation, the
\* operations over them, and an operation more over those.
graph_keys == <<"id">>

Leaves == {<<"from_iter", "a">>, <<"from_iter", "b">>, <<"Graph">>}

GraphJoiners == {"InnerJoiner", "OuterJoiner"}

GraphReducers == {"FirstReducer", "Count"}

Maps(gs) == {<<"map", "DummyMapper", g>> : g \in gs}

Unary(gs) ==
  Maps(gs) \cup {<<"reduce", r, graph_keys, g>> : r \in GraphReducers, g \in gs}

Binary(gs, hs) ==
  {<<"join", j, graph_keys, g, h>> : j \in GraphJoiners, g \in gs, h \in hs}

\* a join of a graph with itself
SelfJoins(gs) == {<<"join", j, graph_keys, g, g>> : j \in GraphJoiners, g \in gs}

Plans ==
  Leaves \cup Unary(Leaves) \cup Binary(Leaves, Leaves)
    \cup Maps(Binary(Leaves, Leaves))
    \cup Binary(Maps(Leaves), Leaves) \cup Binary(Leaves, Maps(Leaves))
    \cup SelfJoins(Unary(Leaves))

\* the ids of the rows of the named sources
GraphIds == 1..2

\* lists of at most n ids, ascending
SortedIds(n) ==
  UNION {{s \in [1..m -> GraphIds] : \A i \in 1..(m - 1) : s[i] <= s[i + 1]}
         : m \in 0..n}

\* The caller holds two lists of rows with the columns id and v, ascending in
\* id, and binds the producers of both, or of the first only.
GraphInit ==
  /\ pc = "ready"
  /\ plan \in Plans
  /\ \E l \in SortedIds(MaxSrcRows), r \in SortedIds(MaxSrcRows) :
       /\ heap = [a \in 1..(Len(l) + Len(r)) |->
                    [id |-> IF a <= Len(l) THEN l[a] ELSE r[a - Len(l)], v |-> 10 * a]]
       /\ \E bound \in {{"a", "b"}, {"a"}} :
            kwargs = [n \in bound |->
                        IF n = "a" THEN [i \in 1..Len(l) |-> i]
                        ELSE [i \in 1..Len(r) |-> Len(l) + i]]
  /\ heap0 = heap
  /\ results = <<>>
  /\ keys = <<>>
  /\ rows = <<>>
  /\ out = <<>>
  /\ pos = 0
  /\ calls = <<>>
  /\ reducer = ""
  /\ top_n = 0
  /\ column = count_column
  /\ mapper = ""
  /\ JoinIdle /\ SortIdle

GraphNext == GraphRun

SpecGraph == GraphInit /\ [][GraphNext]_vars

\* ------------------------------------------------------ properties of Join
InputRows == Range(rows) \cup Range(rows_b)

\* the key a row had when it was handed to the join
Key0(a) == KeyOf(heap0[a], keys)

IsPrefix(s, t) == Len(s) <= Len(t) /\ SubSeq(t, 1, Len(s)) = s

\* every pair (left row, right row), left-major
AllPairs ==
  [n \in 1..(Len(rows) * Len(rows_b)) |->
     <<rows[((n - 1) \div Len(rows_b)) + 1], rows_b[((n - 1) % Len(rows_b)) + 1]>>]

SameKey(p) == Key0(p[1]) = Key0(p[2])

\* the pairs with equal keys; the inputs ascending in K, left-major order is
\* ascending K order with left-major order inside each key
MatchedPairs == SelectSeq(AllPairs, SameKey)

\* the value of column v of input row a is found in row r
CarriesV(r, a) ==
  "v" \in DOMAIN heap0[a] => \E c \in DOMAIN r : r[c] = heap0[a]["v"]

\* C1: an inner join of two K-sorted inputs outputs exactly one row per pair
\* (a, b) of equal key, none for a key of one side only, in ascending K and
\* left-major order inside a key; each row is a new object that carries the
\* key and the values of its pair.
C1_InnerJoinPairs ==
  joiner = "InnerJoiner" =>
    /\ IsPrefix(prov, MatchedPairs)
    /\ Len(out) = Len(prov)
    /\ pc = "done" => prov = MatchedPairs
    /\ \A n \in 1..Len(out) :
         /\ out[n] \notin InputRows
         /\ \A m \in 1..Len(out) : out[m] = out[n] => m = n
         /\ KeyOf(heap[out[n]], keys) = Key0(prov[n][1])
         /\ CarriesV(heap[out[n]], prov[n][1])
         /\ CarriesV(heap[out[n]], prov[n][2])

\* a 2 x 2 key group has been joined on id
C1_Witness ==
  /\ pc = "done" /\ joiner = "InnerJoiner" /\ keys = <<"id">>
  /\ Len(out) = 4
  /\ prov[2] = <<rows[1], rows_b[2]>> /\ prov[3] = <<rows[2], rows_b[1]>>

\* C2: an output row made from the pair (row_a, row_b) holds every non-key
\* column c of both rows as c+suffix_a with row_a's value and c+suffix_b with
\* row_b's value, and does not hold c.
C2_SuffixRenaming ==
  \A n \in 1..Len(out) :
    (prov[n][1] # 0 /\ prov[n][2] # 0) =>
      LET row_a == heap0[prov[n][1]]
          row_b == heap0[prov[n][2]]
          r     == heap[out[n]]
      IN  \A c \in (DOMAIN row_a \cap DOMAIN row_b) \ Range(keys) :
            /\ c \notin DOMAIN r
            /\ (c \o suffix_a) \in DOMAIN r /\ r[c \o suffix_a] = row_a[c]
            /\ (c \o suffix_b) \in DOMAIN r /\ r[c \o suffix_b] = row_b[c]

\* C7: Join never mutates a row of its inputs.
C7_InputRowsUnchanged ==
  \A a \in InputRows : heap[a] = heap0[a]

\* the keys of S in ascending order
RECURSIVE Ascending(_)
Ascending(S) ==
  IF S = {} THEN <<>>
  ELSE LET m == CHOOSE x \in S : \A y \in S \ {x} : ListLess(x, y)
       IN  <<m>> \o Ascending(S \ {m})

\* the rows of list that had key k, in list order
RowsOfKey(list, k) ==
  LET HasKey(a) == Key0(a) = k
  IN  SelectSeq(list, HasKey)

\* one invocation per distinct key of either side, ascending, each with all
\* rows of that key of the left and of the right side
ExpectedCalls ==
  LET ks == Ascending({Key0(a) : a \in InputRows})
  IN  [n \in 1..Len(ks) |-> <<ks[n], RowsOfKey(rows, ks[n]), RowsOfKey(rows_b, ks[n])>>]

\* C10: Join invokes the joiner once per distinct key of either side, in
\* ascending order, with (left group, right group), (left group, empty) or
\* (empty, right group), and ends only when both sides are exhausted.
C10_MergeProtocol ==
  LET ec == ExpectedCalls
  IN  /\ IsPrefix(calls, ec)
      /\ pc = "done" => calls = ec /\ left_next = None /\ right_next = None

\* a key of both sides, then a key of the right side only, after the left
\* side was exhausted
C10_Witness ==
  /\ pc = "done" /\ keys = <<"id">>
  /\ Len(calls) = 2
  /\ calls[1][2] # <<>> /\ calls[1][3] # <<>>
  /\ calls[2][2] = <<>> /\ Len(calls[2][3]) = 1

\* ---------------------------------------------------- properties of Reduce
RECURSIVE Flatten(_)
Flatten(ss) == IF ss = <<>> THEN <<>> ELSE ss[1] \o Flatten(Tail(ss))

\* the contents of the rows pulled so far
OutRows == [n \in 1..Len(out) |-> heap[out[n]]]

\* the contents of what reducer r yields for group G
Reduced(r, K, G) ==
  LET res == ReducerCall(r, heap0, K, G)
  IN  [n \in 1..Len(res.out) |-> res.heap[res.out[n]]]

\* C3: Reduce invokes the reducer once for each maximal contiguous run of
\* rows of equal key, in input order and never with an empty group, and its
\* output is the concatenation of what the reducer yields for each run; an
\* empty input gives no invocation and no output.
C3_ReduceGrouping ==
  /\ Flatten([n \in 1..Len(calls) |-> calls[n][2]]) = SubSeq(rows, 1, pos)
  /\ \A n \in 1..Len(calls) :
       /\ calls[n][2] # <<>>
       /\ \A a \in Range(calls[n][2]) : Key0(a) = calls[n][1]
       /\ n > 1 => calls[n - 1][1] # calls[n][1]
  /\ pos < Len(rows) /\ calls # <<>> => Key0(rows[pos + 1]) # calls[Len(calls)][1]
  /\ OutRows = Flatten([n \in 1..Len(calls) |-> Reduced(reducer, keys, calls[n][2])])
  /\ pc = "done" => pos = Len(rows)

\* the key 1 occurs in two runs separated by a run of key 2, and each run is
\* reduced on its own
C3_Witness ==
  /\ pc = "done" /\ keys = <<"id">> /\ reducer = "Count"
  /\ Len(rows) = 3 /\ Len(calls) = 3
  /\ calls[1][1] = calls[3][1]

\* ------------------------------------------------------- properties of Map
\* the contents of what mapper m yields for a row
Mapped(m, row) ==
  LET res == MapperCall(m, <<row>>, 1)
  IN  [n \in 1..Len(res.out) |-> res.heap[res.out[n]]]

IsLetter(c) == c \notin Whitespace

\* the number of maximal runs of whitespace in s
SeparatorRuns(s) ==
  Cardinality({i \in 1..Len(s) : s[i] \in Whitespace /\ (i = 1 \/ s[i - 1] \notin Whitespace)})

\* C4: the output of Map is the concatenation, in input order, of what the
\* mapper yields for each input row: the rows of one input row are
\* contiguous and in the mapper's order, and a row for which the mapper
\* yields nothing contributes nothing.  For Split, an input row gives one row
\* per token, in the order of the tokens in its text.
C4_MapOutput ==
  /\ OutRows = Flatten([n \in 1..pos |-> Mapped(mapper, heap0[rows[n]])])
  /\ Flatten([n \in 1..Len(calls) |-> calls[n][2]]) = out
  /\ \A n \in 1..Len(calls) :
       /\ calls[n][1] = rows[n]
       /\ \A a \in Range(calls[n][2]) : heap[a].id = heap0[rows[n]].id
       /\ mapper = "DummyMapper" => Len(calls[n][2]) = 1
       /\ mapper = "Filter" =>
            Len(calls[n][2]) = (IF heap0[rows[n]].text = <<>> THEN 0 ELSE 1)
       /\ mapper = "Split" =>
            /\ Len(calls[n][2]) = SeparatorRuns(heap0[rows[n]].text) + 1
            /\ \A a \in Range(calls[n][2]) : \A i \in 1..Len(heap[a].text) :
                 IsLetter(heap[a].text[i])
            /\ Flatten([i \in 1..Len(calls[n][2]) |-> heap[calls[n][2][i]].text])
                 = SelectSeq(heap0[rows[n]].text, IsLetter)
  /\ pc = "done" => pos = Len(rows)

\* Split has made two rows of the first input row and they precede the row
\* of the second input row
C4_Witness ==
  /\ pc = "done" /\ mapper = "Split" /\ Len(rows) = 2
  /\ heap0[rows[1]].text = <<"a", " ", "a">>
  /\ Len(out) = 3
  /\ heap[out[1]].id = 1 /\ heap[out[2]].id = 1 /\ heap[out[3]].id = 2

\* ------------------------------------------------------ properties of sort
\* where the row a stands in the input
PositionIn(list, a) == CHOOSE i \in 1..Len(list) : list[i] = a

\* C5: the output of sort(K) is a permutation of the input rows, is
\* non-decreasing in K-value, and keeps rows of equal K-value in input order,
\* whatever the number of runs the memory bound causes.
C5_SortStable ==
  /\ \A n \in 1..Len(out) :
       /\ out[n] \in Range(rows)
       /\ \A m \in 1..Len(out) : out[m] = out[n] => m = n
       /\ n > 1 => ~ListLess(Key0(out[n]), Key0(out[n - 1]))
       /\ n > 1 /\ Key0(out[n]) = Key0(out[n - 1]) =>
            PositionIn(rows, out[n - 1]) < PositionIn(rows, out[n])
  /\ pc = "done" => Len(out) = Len(rows)
  /\ \A a \in Range(rows) : heap[a] = heap0[a]

\* three runs were spilled, rows of equal key came from different runs, and
\* a row pulled late was put first
C5_Witness ==
  /\ pc = "done" /\ keys = <<"id">> /\ memory = 1
  /\ Len(rows) = 4
  /\ Key0(rows[1]) = Key0(rows[3]) /\ Key0(rows[2]) = Key0(rows[4])
  /\ ListLess(Key0(rows[2]), Key0(rows[1]))
  /\ out = <<rows[2], rows[4], rows[1], rows[3]>>

\* ----------------------------------------------------- properties of Graph
\* C6: with producers that re-issue the same rows on every call, two runs of
\* a Graph in succession give equal row sequences.
C6_RunsIndependent ==
  \A n \in 2..Len(results) :
    /\ results[n].rows = results[1].rows
    /\ results[n].err = results[1].err

\* the graph g has a node with no operation
RECURSIVE HasNoOperation(_)
HasNoOperation(g) ==
  \/ g[1] = "Graph"
  \/ g[1] = "map" /\ HasNoOperation(g[3])
  \/ g[1] = "reduce" /\ HasNoOperation(g[4])
  \/ g[1] = "join" /\ (HasNoOperation(g[4]) \/ HasNoOperation(g[5]))

\* the names of the from_iter sources of g
RECURSIVE SourceNames(_)
SourceNames(g) ==
  CASE g[1] = "Graph"     -> {}
    [] g[1] = "from_iter" -> {g[2]}
    [] g[1] = "map"       -> SourceNames(g[3])
    [] g[1] = "reduce"    -> SourceNames(g[4])
    [] g[1] = "join"      -> SourceNames(g[4]) \cup SourceNames(g[5])

\* C8: a run of a Graph that has a node with no operation, at the root or
\* upstream of a map, reduce or join, fails with EmptyOperation and gives its
\* caller no row.
C8_PlanError ==
  HasNoOperation(plan) =>
    \A n \in 1..Len(results) :
      results[n].err = "EmptyOperation" /\ results[n].out = <<>>

\* the node with no operation is under a map on the right of a join whose
\* left source has rows
C8_Witness ==
  /\ plan[1] = "join" /\ plan[4] = <<"from_iter", "a">>
  /\ plan[5] = <<"map", "DummyMapper", <<"Graph">>>>
  /\ kwargs["a"] # <<>>
  /\ Len(results) = 1 /\ results[1].err = "EmptyOperation"

\* C9: a run of a Graph with a from_iter source whose name is not among the
\* named sources fails with EmptyOperation.
C9_BindingError ==
  ~(SourceNames(plan) \subseteq DOMAIN kwargs) =>
    \A n \in 1..Len(results) : results[n].err = "EmptyOperation"

\* the unbound source is the right input of a join whose left source is
\* bound and has rows
C9_Witness ==
  /\ plan[1] = "join" /\ plan[4] = <<"from_iter", "a">> /\ plan[5] = <<"from_iter", "b">>
  /\ DOMAIN kwargs = {"a"} /\ kwargs["a"] # <<>>
  /\ Len(results) = 1 /\ results[1].err = "EmptyOperation"

\* ------------------------------------- properties of the left/outer/right joins
\* every pair of a row of A and a row of B, left-major
Pairs(A, B) ==
  [n \in 1..(Len(A) * Len(B)) |->
     <<A[((n - 1) \div Len(B)) + 1], B[((n - 1) % Len(B)) + 1]>>]

\* where the rows of one key come from: the pairs when both sides have rows
\* of the key, the left rows alone when keepLeft, the right rows alone when
\* keepRight
GroupPairs(A, B, keepLeft, keepRight) ==
  IF A # <<>> /\ B # <<>> THEN Pairs(A, B)
  ELSE IF A # <<>> /\ keepLeft THEN [i \in 1..Len(A) |-> <<A[i], 0>>]
  ELSE IF B # <<>> /\ keepRight THEN [i \in 1..Len(B) |-> <<0, B[i]>>]
  ELSE <<>>

\* key by key, ascending
ExpectedPairs(keepLeft, keepRight) ==
  LET ec == ExpectedCalls
  IN  Flatten([n \in 1..Len(ec) |-> GroupPairs(ec[n][2], ec[n][3], keepLeft, keepRight)])

\* the n-th output row is what its origin says: a row passed through is the
\* input row itself, with the columns and values it was handed over with; a
\* merged row is a new object with the key and the values of its pair
OutputRowAsProv(n) ==
  LET a == prov[n][1]
      b == prov[n][2]
  IN  /\ b = 0 => out[n] = a /\ heap[a] = heap0[a]
      /\ a = 0 => out[n] = b /\ heap[b] = heap0[b]
      /\ (a # 0 /\ b # 0) =>
           /\ out[n] \notin InputRows
           /\ KeyOf(heap[out[n]], keys) = Key0(a)
           /\ CarriesV(heap[out[n]], a)
           /\ CarriesV(heap[out[n]], b)

\* the output so far is the start of the expected one, and all of it at the end
OutputAsExpected(keepLeft, keepRight) ==
  LET ep == ExpectedPairs(keepLeft, keepRight)
  IN  /\ IsPrefix(prov, ep)
      /\ Len(out) = Len(prov)
      /\ pc = "done" => prov = ep
      /\ \A n \in 1..Len(out) : OutputRowAsProv(n)

\* C11: a left join passes a left group with no right rows through unchanged
\* and in order, gives the pairs of merged rows for a key of both sides and
\* nothing for a right group with no left rows; every left input row is the
\* origin of an output row.
C11_LeftJoin ==
  joiner = "LeftJoiner" =>
    /\ OutputAsExpected(TRUE, FALSE)
    /\ \A n \in 1..Len(out) : prov[n][1] # 0
    /\ pc = "done" => \A a \in Range(rows) : \E n \in 1..Len(out) : prov[n][1] = a

\* the left row of id 2 meets right rows of id 1 only, and is passed through
C11_Witness ==
  /\ pc = "done" /\ joiner = "LeftJoiner" /\ keys = <<"id">>
  /\ Len(rows) = 1 /\ Key0(rows[1]) = <<2>>
  /\ Len(rows_b) = 2 /\ Key0(rows_b[1]) = <<1>> /\ Key0(rows_b[2]) = <<1>>
  /\ "v" \in DOMAIN heap0[rows[1]] /\ "v" \in DOMAIN heap0[rows_b[1]]
  /\ out = rows

\* C12: an outer join gives the pairs of merged rows for a key of both sides,
\* the left rows unchanged and in order for a key of the left side only, and
\* the right rows unchanged and in order, not renamed, for a key of the right
\* side only; every input row is the origin of an output row.
C12_OuterJoin ==
  joiner = "OuterJoiner" =>
    /\ OutputAsExpected(TRUE, TRUE)
    /\ pc = "done" =>
         /\ \A a \in Range(rows) : \E n \in 1..Len(out) : prov[n][1] = a
         /\ \A b \in Range(rows_b) : \E n \in 1..Len(out) : prov[n][2] = b

\* a key of the left side only, then a key of the right side only whose row
\* has the column v that the left row has too
C12_Witness ==
  /\ pc = "done" /\ joiner = "OuterJoiner" /\ keys = <<"id">>
  /\ Len(rows) = 1 /\ Key0(rows[1]) = <<1>>
  /\ Len(rows_b) = 1 /\ Key0(rows_b[1]) = <<2>>
  /\ "v" \in DOMAIN heap0[rows[1]] /\ "v" \in DOMAIN heap0[rows_b[1]]
  /\ out = <<rows[1], rows_b[1]>>

\* C13: a right join gives the pairs of merged rows for a key of both sides,
\* the right rows unchanged and in order for a key of the right side only,
\* and nothing for a key of the left side only; every right input row is the
\* origin of an output row and no left row is passed through.
C13_RightJoin ==
  joiner = "RightJoiner" =>
    /\ OutputAsExpected(FALSE, TRUE)
    /\ \A n \in 1..Len(out) : prov[n][2] # 0 /\ out[n] \notin Range(rows)
    /\ pc = "done" => \A b \in Range(rows_b) : \E n \in 1..Len(out) : prov[n][2] = b

\* a key of both sides, a key of the left side only and nothing for it
C13_Witness ==
  /\ pc = "done" /\ joiner = "RightJoiner" /\ keys = <<"id">>
  /\ Len(rows) = 2 /\ Key0(rows[1]) = <<1>> /\ Key0(rows[2]) = <<2>>
  /\ Len(rows_b) = 2 /\ Key0(rows_b[1]) = <<1>> /\ Key0(rows_b[2]) = <<1>>
  /\ prov = <<<<rows[1], rows_b[1]>>, <<rows[1], rows_b[2]>>>>

\* ------------------------------------------------------ properties of TopN
\* the rows of the output that are rows of the group G, in output order
OutputOf(G) ==
  LET InG(a) == a \in Range(G)
  IN  SelectSeq(out, InG)

Min(a, b) == IF a < b THEN a ELSE b

\* C14: for every group TopN emits min(n, group size) rows, the rows with the
\* largest values of the column, in non-increasing order of it; of rows with
\* equal values the one seen earlier in the group comes first and is the one
\* kept when the cut falls inside a tie.
C14_TopN ==
  reducer = "TopN" =>
    /\ out = Flatten([c \in 1..Len(calls) |-> OutputOf(calls[c][2])])
    /\ \A i, j \in 1..Len(out) : out[i] = out[j] => i = j
    /\ \A c \in 1..Len(calls) :
         LET G   == calls[c][2]
             top == OutputOf(G)
             s(a) == heap[a][column_max]
         IN  /\ Len(top) = Min(top_n, Len(G))
             /\ \A i \in 1..Len(top) : heap[top[i]] = heap0[top[i]]
             /\ \A i \in 1..(Len(top) - 1) :
                  \/ s(top[i]) > s(top[i + 1])
                  \/ /\ s(top[i]) = s(top[i + 1])
                     /\ PositionIn(G, top[i]) < PositionIn(G, top[i + 1])
             /\ \A a \in Range(top), b \in Range(G) \ Range(top) :
                  \/ s(a) > s(b)
                  \/ s(a) = s(b) /\ PositionIn(G, a) < PositionIn(G, b)

\* a group with the scores 1, 2, 1 and n = 2: the cut falls inside the tie
\* of the two rows of score 1, and the one seen first is kept
C14_Witness ==
  /\ pc = "done" /\ reducer = "TopN" /\ top_n = 2 /\ keys = <<"id">>
  /\ Len(rows) = 3 /\ Len(calls) = 1
  /\ heap0[rows[1]].s = 1 /\ heap0[rows[2]].s = 2 /\ heap0[rows[3]].s = 1
  /\ out = <<rows[2], rows[1]>>

\* ----------------------------------------------------- properties of Count
\* for every group Count has emitted one new row, whose columns are the key
\* columns, with the group's key values, and the result column, with the
\* number of rows of the group
CountRows ==
  /\ Len(out) = Len(calls)
  /\ \A c \in 1..Len(calls) :
       LET r == heap[out[c]]
       IN  /\ out[c] \notin Range(rows)
           /\ DOMAIN r = Range(keys) \cup {column}
           /\ KeyOf(r, keys) = calls[c][1]
           /\ r[column] = Len(calls[c][2])

\* C15 as stated: for every group Count(result_col) emits exactly one row,
\* with exactly the key columns, carrying the group's key values, and
\* result_col, carrying the number of rows of the group.
C15_CountRow == reducer = "Count" => CountRows

\* C15 with the condition it needs: result_col is not a key column.
C15_CountRowOwnColumn ==
  (reducer = "Count" /\ column \notin Range(keys)) => CountRows

\* groups of two rows and of one row, counted in a column that is also a
\* non-key column of the input
C15_Witness ==
  /\ pc = "done" /\ reducer = "Count" /\ keys = <<"id">> /\ column = "v"
  /\ Len(rows) = 3 /\ Len(out) = 2
  /\ heap[out[1]] = [id |-> 1, v |-> 2]
  /\ heap[out[2]] = [id |-> 2, v |-> 1]

\* ------------------------------------------- properties of Map's input rows
\* C16: Map leaves every row of its input unchanged, whatever the mapper does
\* to the row it is given: the mapper is given a copy, and no row Map yields
\* is a row of the input.
C16_MapInputUnchanged ==
  /\ \A a \in Range(rows) : heap[a] = heap0[a]
  /\ \A n \in 1..Len(out) : out[n] \notin Range(rows)

\* Split has removed the text of its row and yielded a row for each of the
\* two tokens, and the input row still has both tokens
C16_Witness ==
  /\ pc = "done" /\ mapper = "Split" /\ Len(rows) = 1
  /\ heap[rows[1]].text = <<"A", " ", "A">>
  /\ Len(out) = 2
  /\ heap[out[1]].text = <<"A">> /\ heap[out[2]].text = <<"A">>

\* --------------------------------------- properties of Reduce, FirstReducer
\* the rows of the input from position i on that start a maximal run of
\* equal keys
RECURSIVE RunStartsFrom(_)
RunStartsFrom(i) ==
  IF i > Len(rows) THEN <<>>
  ELSE (IF i = 1 \/ Key0(rows[i - 1]) # Key0(rows[i]) THEN <<rows[i]>> ELSE <<>>)
         \o RunStartsFrom(i + 1)

\* C17: Reduce skips what a reducer left of its group before it starts the
\* next group: with FirstReducer the output is the first row of each maximal
\* run of equal keys, one row per run, in input order, and every group handed
\* to the reducer starts at the start of a run.
C17_FirstOfEachRun ==
  reducer = "FirstReducer" =>
    /\ IsPrefix(out, RunStartsFrom(1))
    /\ pc = "done" => out = RunStartsFrom(1)
    /\ Len(out) = Len(calls)
    /\ \A c \in 1..Len(calls) :
         /\ out[c] = calls[c][2][1]
         /\ heap[out[c]] = heap0[out[c]]
         /\ \E i \in 1..Len(rows) :
              /\ rows[i] = calls[c][2][1]
              /\ i = 1 \/ Key0(rows[i - 1]) # Key0(rows[i])

\* a run of two rows of id 1, of which FirstReducer pulled one, and then a
\* run of id 2
C17_Witness ==
  /\ pc = "done" /\ reducer = "FirstReducer" /\ keys = <<"id">>
  /\ Len(rows) = 3
  /\ Key0(rows[1]) = <<1>> /\ Key0(rows[2]) = <<1>> /\ Key0(rows[3]) = <<2>>
  /\ out = <<rows[1], rows[3]>>

\* ------------------------------------------ properties of a run's streams
\* how many from_iter(name) nodes the consumers of g reach, a graph that
\* several consumers share counted once for each of them
RECURSIVE SourceCount(_, _)
SourceCount(g, name) ==
  CASE g[1] = "Graph"     -> 0
    [] g[1] = "from_iter" -> IF g[2] = name THEN 1 ELSE 0
    [] g[1] = "map"       -> SourceCount(g[3], name)
    [] g[1] = "reduce"    -> SourceCount(g[4], name)
    [] g[1] = "join"      -> SourceCount(g[4], name) + SourceCount(g[5], name)

\* the streams of the source name among the streams ss
ReadsOf(ss, name) ==
  LET IsRead(e) == e[1] = "read" /\ e[2] = name
  IN  SelectSeq(ss, IsRead)

\* C18: in a run, every consumer of a source has a stream of its own, which
\* gives it all rows of the source, in order, whatever other consumers of the
\* same source or of the same sub-graph pulled; a join of a graph with itself
\* is given two streams of the same length, and the whole source twice when
\* the graph is a source.
C18_OwnStreams ==
  \A n \in 1..Len(results) :
    results[n].err = "" =>
      /\ \A name \in DOMAIN kwargs :
           LET reads == ReadsOf(results[n].streams, name)
           IN  /\ Len(reads) = SourceCount(plan, name)
               /\ \A i \in 1..Len(reads) : reads[i][3] = kwargs[name]
      /\ (plan[1] = "join" /\ plan[4] = plan[5]) =>
           LET j == Last(results[n].streams)
           IN  /\ j[1] = "join"
               /\ Len(j[2]) = Len(j[3])
               /\ plan[4][1] = "from_iter" =>
                    j[2] = kwargs[plan[4][2]] /\ j[3] = kwargs[plan[4][2]]

\* the source a, of two rows, is joined with itself, and both sides of the
\* join were given the two rows
C18_Witness ==
  /\ plan = <<"join", "InnerJoiner", graph_keys, <<"from_iter", "a">>, <<"from_iter", "a">>>>
  /\ Len(kwargs["a"]) = 2
  /\ Len(results) = 1 /\ results[1].err = ""
  /\ Len(ReadsOf(results[1].streams, "a")) = 2
  /\ Last(results[1].streams) = <<"join", kwargs["a"], kwargs["a"]>>

\* ----------------------------- properties of Join, inputs in one key order
\* the keys of the maximal runs of equal keys of list, from position i on
RECURSIVE RunKeys(_, _)
RunKeys(list, i) ==
  IF i > Len(list) THEN <<>>
  ELSE (IF i = 1 \/ Key0(list[i - 1]) # Key0(list[i]) THEN <<Key0(list[i])>> ELSE <<>>)
         \o RunKeys(list, i + 1)

\* both inputs present the same sequence of distinct keys, the rows of a key
\* contiguous
SameKeyOrder ==
  /\ RunKeys(rows, 1) = RunKeys(rows_b, 1)
  /\ \A i, j \in 1..Len(RunKeys(rows, 1)) :
       RunKeys(rows, 1)[i] = RunKeys(rows, 1)[j] => i = j

\* one invocation per key, in the order of the inputs, with the rows of the
\* key of both sides
CallsInOrder ==
  LET ks == RunKeys(rows, 1)
  IN  [c \in 1..Len(ks) |-> <<ks[c], RowsOfKey(rows, ks[c]), RowsOfKey(rows_b, ks[c])>>]

PairsInOrder ==
  Flatten([c \in 1..Len(CallsInOrder) |-> Pairs(CallsInOrder[c][2], CallsInOrder[c][3])])

\* C19: when both inputs present the same sequence of distinct keys, not
\* necessarily ascending, an inner join pairs each left group with the right
\* group of its key, in that order, treats no group as unmatched, and, when
\* no non-key column is in rows of both sides, each output row has the
\* columns and values of its left and its right row.
C19_SameOrderJoin ==
  (joiner = "InnerJoiner" /\ SameKeyOrder) =>
    /\ IsPrefix(calls, CallsInOrder)
    /\ \A c \in 1..Len(calls) : calls[c][2] # <<>> /\ calls[c][3] # <<>>
    /\ IsPrefix(prov, PairsInOrder)
    /\ Len(out) = Len(prov)
    /\ pc = "done" => calls = CallsInOrder /\ prov = PairsInOrder
    /\ \A n \in 1..Len(out) :
         LET row_a == heap0[prov[n][1]]
             row_b == heap0[prov[n][2]]
         IN  (DOMAIN row_a \cap DOMAIN row_b) \subseteq Range(keys) =>
               heap[out[n]] = Update(row_b, row_a)

\* both sides present the ids 2, 1, descending, left with two rows of id 2,
\* with no column in common but id: three rows, of id 2, 2, 1
C19_Witness ==
  /\ pc = "done" /\ joiner = "InnerJoiner" /\ keys = <<"id">>
  /\ RunKeys(rows, 1) = <<<<2>>, <<1>>>> /\ RunKeys(rows_b, 1) = <<<<2>>, <<1>>>>
  /\ Len(rows) = 3 /\ Len(rows_b) = 2
  /\ "v" \notin DOMAIN heap0[rows[1]]
  /\ Len(out) = 3
  /\ heap[out[2]] = [id |-> 2, test_id |-> 20, price |-> 40]
  /\ heap[out[3]] = [id |-> 1, test_id |-> 30, price |-> 50]

====
